---- MODULE Spec2Model ----
(***************************************************************************)
(* Decoding entry points of models/base_network.py: the shape checks of    *)
(* LSTMDecoder.forward, ContentDecoder.forward, ContentDecoder.decode and  *)
(* LSTMDecoder.decode, the masked greedy/stochastic loop of                *)
(* ContentDecoder.decode, and LSTMDecoder.beam_search_decode.              *)
(*                                                                         *)
(* Log-probabilities are integers in tenths of a nat (0.1 is 1).  The      *)
(* recurrent state and the latent code are opaque: what the LSTM and the   *)
(* projection return is drawn from DecoderRows at every step.  A tensor is *)
(* represented by its leading dimensions, <<nsamples, batch>>; the latent  *)
(* dimension plays no part in any check of the code.                       *)
(***************************************************************************)
EXTENDS Integers, Sequences, FiniteSets, TLC

(* ------------------------------ bounds -------------------------------- *)
MaxSamples == 2
MaxBatch == 2
MaxExamples == 2
MaxK == 3
MaxT == 3
MaxSeqLen == 2
FreePrefix == 2
FreeTail == 1
MaxWork == 12

(* ---------------------------- vocabulary ------------------------------ *)
\* vocab.id2word as a table; word ids are 0-based positions in it.
id2word == <<"<s>", "</s>", "a", "b">>

VocabSize == Len(id2word)

WordIds == 0 .. (VocabSize - 1)

\* self.vocab[w]
vocab(w) == CHOOSE i \in WordIds : id2word[i + 1] = w

\* The null reference.
None == <<>>

\* A reference to node n.  Nodes are never mutated after construction, so a
\* node stands for the object it was built as.
Ref(n) == <<n>>

\* An absent tensor argument (z2=None).
NoTensor == <<>>

\* No exception.
NoError == "none"

(* ------------------------- decoder primitive -------------------------- *)
\* log_softmax underflow floor: at -104 nats float32 softmax is exactly 0.
LowLogp == -1040

\* One row of log-probabilities over the vocabulary: all mass on w.
Sure(w) == [x \in WordIds |-> IF x = w THEN 0 ELSE LowLogp]

\* A row split evenly between </s> and a, nothing on the rest (-0.7 is log 0.5).
Split == [x \in WordIds |->
            IF x \in {vocab("</s>"), vocab("a")} THEN -7 ELSE LowLogp]

\* The rows an unconstrained decoder is given to return.
FreeRows == {Sure(vocab("</s>")), Sure(vocab("a")), Split}

\* The token the forced decoder puts all mass on at steps 1 and 2.
Forced == <<vocab("a"), vocab("</s>")>>

\* The rows the decoder may return at step `step` (1-based).
DecoderRows(dec, step) ==
    IF dec = "forced" /\ step \in DOMAIN Forced THEN {Sure(Forced[step])}
    ELSE FreeRows

(* ------------------------------ state --------------------------------- *)
VARIABLES
    entry,                 \* the method called
    pc,                    \* position in it
    raised,                \* exception that ended the call, or NoError
    inputs,                \* size of the token tensor given to forward
    c, s,                  \* sizes of the latent arguments (z1, z2 of beam search)
    greedy,                \* decode's argument
    K, max_t,              \* beam_search_decode's arguments
    decoder,               \* which decoder weights are installed
    output_logits,         \* size of the tensor forward returns
    batch_size,
    decoded_batch,         \* result under construction
    decoder_input, mask, length_c,            \* decode's locals
    idx, t,                                   \* beam_search_decode's locals
    live_hypotheses,       \* list of BeamSearchNode
    completed_hypotheses   \* list of BeamSearchNode

args == <<entry, inputs, greedy, K, max_t, decoder>>

decodeVars == <<decoder_input, mask, length_c>>

beamVars == <<idx, t, live_hypotheses, completed_hypotheses>>

vars == <<pc, raised, c, s, output_logits, batch_size, decoded_batch, args,
          decodeVars, beamVars>>

(* ------------------------- BeamSearchNode ----------------------------- *)
\* BeamSearchNode.__init__; previousNode is a reference or None.
BeamSearchNode(hiddenstate, previousNode, wordId, logProb, length) ==
    [h |-> hiddenstate, prevNode |-> previousNode, wordid |-> wordId,
     logp |-> logProb, leng |-> length]

\* The opaque recurrent state.
Hidden == "h"

\* logp of the root node, 0.1.
RootLogp == 1

\* BeamSearchNode.eval with alpha * reward = 0, compared instead of computed:
\* n.eval() < m.eval(), that is n.logp * (m.leng - 1 + 1e-6) <
\* m.logp * (n.leng - 1 + 1e-6).  The integer parts decide unless they are
\* equal, since |logp| * 1e-6 < 1.
EvalLess(n, m) ==
    LET a == n.logp * (m.leng - 1)
        b == m.logp * (n.leng - 1)
    IN a < b \/ (a = b /\ n.logp < m.logp)

(* ------------------------------ helpers ------------------------------- *)
\* torch.topk(scores, k) on a flat 0-based score vector: every order of
\* indices that is non-increasing in value and leaves no larger value out.
RECURSIVE TopK(_, _, _)
TopK(scores, cand, k) ==
    IF k = 0 THEN {<<>>}
    ELSE LET best == {i \in cand : \A j \in cand : scores[j] <= scores[i]}
         IN UNION {{<<i>> \o rest : rest \in TopK(scores, cand \ {i}, k - 1)} :
                   i \in best}

\* Remove(list, i): list without its i-th element.
Remove(list, i) ==
    [j \in 1 .. (Len(list) - 1) |-> IF j < i THEN list[j] ELSE list[j + 1]]

\* The final ranking with BeamSearchNode.eval as its key.
RECURSIVE SortedByEval(_)
SortedByEval(list) ==
    IF list = <<>> THEN <<>>
    ELSE LET top == CHOOSE i \in 1 .. Len(list) :
                      /\ \A j \in 1 .. Len(list) : ~EvalLess(list[i], list[j])
                      /\ \A j \in 1 .. (i - 1) : EvalLess(list[j], list[i])
         IN <<list[top]>> \o SortedByEval(Remove(list, top))

\* sorted(list, key=lambda node: node.logp, reverse=True), line 521: stable,
\* so equal keys keep list order.
RECURSIVE SortedByLogp(_)
SortedByLogp(list) ==
    IF list = <<>> THEN <<>>
    ELSE LET top == CHOOSE i \in 1 .. Len(list) :
                      /\ \A j \in 1 .. Len(list) : list[j].logp <= list[i].logp
                      /\ \A j \in 1 .. (i - 1) : list[j].logp < list[i].logp
         IN <<list[top]>> \o SortedByLogp(Remove(list, top))

\* Lines 523-526: the walk along prevNode from n to the root.
RECURSIVE Walk(_)
Walk(n) ==
    <<id2word[n.wordid + 1]>> \o
        (IF n.prevNode = None THEN <<>> ELSE Walk(n.prevNode[1]))

\* Line 528 left out.
Reverse_Missing(q) == q

\* utterance[::-1]
Reverse(q) == [i \in 1 .. Len(q) |-> q[Len(q) + 1 - i]]

\* Lines 520-533: the utterance of the first node of the sorted list.
Utterance(completed) == Reverse(Walk(SortedByLogp(completed)[1]))

(* ------------------------------ inputs -------------------------------- *)
\* <<nsamples, batch>> of a latent sample.
Sizes == {z \in (1 .. MaxSamples) \X (1 .. MaxBatch) : z[1] * z[2] <= MaxExamples}

\* Beam widths: the small ones, and one wider than the vocabulary.
BeamWidths == (1 .. MaxK) \cup {VocabSize + 1}

\* Rows of the tensor once its leading dimensions are flattened.
Rows(z) == IF Len(z) = 1 THEN z[1] ELSE z[1] * z[2]

\* Node expansions a beam search over latent codes of size z may ask for.
Work(width, steps, z) == width * steps * Rows(z)

Idle ==
    /\ pc = "call"
    /\ raised = NoError
    /\ output_logits = NoTensor
    /\ batch_size = 0
    /\ decoded_batch = <<>>
    /\ decoder_input = <<>>
    /\ mask = <<>>
    /\ length_c = 0
    /\ idx = 0
    /\ t = 0
    /\ live_hypotheses = <<>>
    /\ completed_hypotheses = <<>>

Init ==
    /\ Idle
    /\ \/ /\ entry = "LSTMDecoder.forward"
          /\ c \in Sizes
          /\ s \in Sizes
          /\ inputs \in {<<n, c[2]>> : n \in 1 .. MaxSeqLen}
          /\ greedy = TRUE /\ K = 0 /\ max_t = 0 /\ decoder = "free"
       \/ /\ entry = "ContentDecoder.forward"
          /\ c \in Sizes
          /\ s = NoTensor
          /\ inputs \in {<<n, c[2]>> : n \in 1 .. MaxSeqLen}
          /\ greedy = TRUE /\ K = 0 /\ max_t = 0 /\ decoder = "free"
       \/ /\ entry = "ContentDecoder.decode"
          /\ c \in Sizes
          /\ s = NoTensor
          /\ inputs = NoTensor
          /\ greedy \in BOOLEAN
          /\ decoder \in {"free", "forced"}
          /\ K = 0 /\ max_t = 0
       \/ /\ entry = "LSTMDecoder.decode"
          /\ c \in Sizes
          /\ s \in Sizes
          /\ inputs = NoTensor
          /\ greedy \in BOOLEAN
          /\ decoder = "free" /\ K = 0 /\ max_t = 0
       \/ /\ entry = "LSTMDecoder.beam_search_decode"
          /\ \/ c \in Sizes /\ s \in Sizes
             \/ c \in {<<b>> : b \in 1 .. MaxExamples} /\ s = NoTensor
          /\ inputs = NoTensor
          /\ greedy = TRUE
          /\ K \in BeamWidths
          /\ max_t \in 0 .. MaxT
          /\ decoder \in {"free", "forced"}
          /\ Work(K, max_t, c) <= MaxWork

(* --------------------------- forward ---------------------------------- *)
\* LSTMDecoder.forward, lines 358-391.
LSTMDecoderForward ==
    /\ pc = "call"
    /\ entry = "LSTMDecoder.forward"
    /\ IF c[1] # s[1] \/ c[2] # s[2]
       THEN /\ pc' = "error"
            /\ raised' = "AssertionError"
            /\ UNCHANGED <<c, s, output_logits>>
       ELSE IF c[1] # 1
       THEN /\ pc' = "error"
            /\ raised' = "NotImplementedError"
            /\ UNCHANGED <<c, s, output_logits>>
       ELSE /\ c' = <<Rows(c)>>
            /\ s' = <<Rows(s)>>
            /\ output_logits' = <<inputs[1], c[2], VocabSize>>
            /\ pc' = "done"
            /\ raised' = raised
    /\ UNCHANGED <<batch_size, decoded_batch, args, decodeVars, beamVars>>

\* ContentDecoder.forward, lines 177-201.
ContentDecoderForward ==
    /\ pc = "call"
    /\ entry = "ContentDecoder.forward"
    /\ IF c[1] # 1
       THEN /\ pc' = "error"
            /\ raised' = "NotImplementedError"
            /\ UNCHANGED <<c, output_logits>>
       ELSE /\ c' = <<Rows(c)>>
            /\ output_logits' = <<inputs[1], c[2], VocabSize>>
            /\ pc' = "done"
            /\ raised' = raised
    /\ UNCHANGED <<s, batch_size, decoded_batch, args, decodeVars, beamVars>>

(* ---------------------------- decode ---------------------------------- *)
\* The loop bound of line 223.
MaxLength == 100

\* LSTMDecoder.decode, line 394: assert False.
LSTMDecoderDecode ==
    /\ pc = "call"
    /\ entry = "LSTMDecoder.decode"
    /\ pc' = "error"
    /\ raised' = "AssertionError"
    /\ UNCHANGED <<c, s, output_logits, batch_size, decoded_batch, args,
                   decodeVars, beamVars>>

\* ContentDecoder.decode, lines 203-222.
DecodeEntry ==
    /\ pc = "call"
    /\ entry = "ContentDecoder.decode"
    /\ IF c[1] # 1
       THEN /\ pc' = "error"
            /\ raised' = "AssertionError"
            /\ UNCHANGED <<c, batch_size, decoded_batch, decodeVars>>
       ELSE /\ c' = <<Rows(c)>>
            /\ batch_size' = c'[1]
            /\ decoded_batch' = [i \in 1 .. batch_size' |-> <<>>]
            /\ decoder_input' = [i \in 1 .. batch_size' |-> vocab("<s>")]
            /\ mask' = [i \in 1 .. batch_size' |-> 1]
            /\ length_c' = 1
            /\ pc' = "loop"
            /\ raised' = raised
    /\ UNCHANGED <<s, output_logits, args, beamVars>>

RECURSIVE Sum(_)
Sum(q) == IF q = <<>> THEN 0 ELSE Head(q) + Sum(Tail(q))

\* Line 223 without its length cap.
LoopCond_NoCap == Sum(mask) # 0

\* Line 223.
LoopCond == Sum(mask) # 0 /\ length_c < MaxLength

\* The rows the decoder may return in decode for an example whose input
\* token is `input`: any row during the first FreePrefix and the last
\* FreeTail steps, and in between the row that repeats the input token.
DecodeRows(dec, step, input) ==
    IF \/ step <= FreePrefix
       \/ step >= MaxLength - FreeTail
       \/ dec = "forced" /\ step \in DOMAIN Forced
    THEN DecoderRows(dec, step)
    ELSE {Sure(input)}

\* Lines 233-237: argmax, or a draw from the softmax of the row.
Select(row, isGreedy) ==
    IF isGreedy
    THEN {w \in WordIds : \A x \in WordIds : row[x] <= row[w]}
    ELSE {w \in WordIds : row[w] > LowLogp}

\* Lines 242-244 run after line 246, on the updated mask.
Collect_AfterMask(batch, m, select_index) ==
    [i \in DOMAIN batch |->
        IF m[i] # 0 /\ select_index[i] # vocab("</s>")
        THEN Append(batch[i], id2word[select_index[i] + 1])
        ELSE batch[i]]

\* Lines 242-244.
Collect(batch, m, select_index) ==
    [i \in DOMAIN batch |->
        IF m[i] # 0 THEN Append(batch[i], id2word[select_index[i] + 1])
        ELSE batch[i]]

\* Line 246 without the product with the old mask.
NewMask_Overwrite(m, select_index) ==
    [i \in DOMAIN m |-> IF select_index[i] # vocab("</s>") THEN 1 ELSE 0]

\* Line 246.
NewMask(m, select_index) ==
    [i \in DOMAIN m |-> (IF select_index[i] # vocab("</s>") THEN 1 ELSE 0) * m[i]]

\* Lines 223-246: one iteration of the loop.
DecodeStep ==
    /\ pc = "loop"
    /\ LoopCond
    /\ \E select_index \in [1 .. batch_size -> WordIds] :
         /\ \A i \in 1 .. batch_size :
               \E row \in DecodeRows(decoder, length_c, decoder_input[i]) :
                  select_index[i] \in Select(row, greedy)
         /\ decoder_input' = select_index
         /\ length_c' = length_c + 1
         /\ decoded_batch' = Collect(decoded_batch, mask, select_index)
         /\ mask' = NewMask(mask, select_index)
    /\ UNCHANGED <<pc, raised, c, s, output_logits, batch_size, args, beamVars>>

\* Line 223 evaluated false, line 248: return decoded_batch.
DecodeReturn ==
    /\ pc = "loop"
    /\ ~LoopCond
    /\ pc' = "done"
    /\ UNCHANGED <<raised, c, s, output_logits, batch_size, decoded_batch, args,
                   decodeVars, beamVars>>

(* ----------------------- beam_search_decode --------------------------- *)
\* Lines 445-458: flatten and concatenate the latent codes.
BeamEntry ==
    /\ pc = "call"
    /\ entry = "LSTMDecoder.beam_search_decode"
    /\ IF s # NoTensor
       THEN /\ c' = <<Rows(c)>>
            /\ s' = <<Rows(s)>>
            /\ IF c' = s'
               THEN /\ batch_size' = c'[1]
                    /\ pc' = "example"
                    /\ raised' = raised
               ELSE \* torch.cat: sizes of tensors must match except in dimension 1
                    /\ pc' = "error"
                    /\ raised' = "RuntimeError"
                    /\ batch_size' = batch_size
       ELSE \* z = z1
            /\ batch_size' = c[1]
            /\ pc' = "example"
            /\ UNCHANGED <<c, s, raised>>
    /\ UNCHANGED <<output_logits, decoded_batch, args, decodeVars, beamVars>>

\* Lines 460-469: the next example's root node; line 535 when none is left.
BeamExample ==
    /\ pc = "example"
    /\ IF idx < batch_size
       THEN /\ live_hypotheses' =
                   <<BeamSearchNode(Hidden, None, vocab("<s>"), RootLogp, 1)>>
            /\ completed_hypotheses' = <<>>
            /\ t' = 0
            /\ pc' = "while"
       ELSE /\ pc' = "done"
            /\ UNCHANGED <<live_hypotheses, completed_hypotheses, t>>
    /\ UNCHANGED <<raised, c, s, output_logits, batch_size, decoded_batch, args,
                   decodeVars, idx>>

\* Lines 473-493: the flat score vector for decoder rows `out`.
Scores(live, out) ==
    [i \in 0 .. (Len(live) * VocabSize - 1) |->
        out[(i \div VocabSize) + 1][i % VocabSize] +
        live[(i \div VocabSize) + 1].logp]

\* Lines 497-505: the new nodes, in the order topk returned them.
NewNodes(live, scores, sel, step) ==
    [j \in 1 .. Len(sel) |->
        BeamSearchNode(Hidden, Ref(live[(sel[j] \div VocabSize) + 1]),
                       sel[j] % VocabSize, scores[sel[j]], step)]

\* Line 507 comparing with the wrong special token.
IsCompleted_WrongToken(node) == node.wordid = vocab("<s>")

\* Line 507: does the new node go to completed_hypotheses?
IsCompleted(node) == node.wordid = vocab("</s>")

\* Lines 509-510 also leaving out a node that repeats the start token.
IsLive_SkipsStartToken(node) ==
    ~IsCompleted(node) /\ node.wordid # vocab("<s>")

\* IsCompleted negated, lines 509-510.
IsLive(node) == ~IsCompleted(node)

\* Line 495 asking for K entries whatever has completed.
TopKCount_IgnoresCompleted(width, completed) == width

\* Line 495: the number of entries asked of topk.
TopKCount(width, completed) == width - Len(completed)

\* Line 470 with t <= max_t.
WhileCond_OffByOne == Len(completed_hypotheses) < K /\ t <= max_t

\* Line 470.
WhileCond == Len(completed_hypotheses) < K /\ t < max_t

\* Lines 470-515: one iteration of the while loop.
Expand ==
    /\ pc = "while"
    /\ WhileCond
    /\ t' = t + 1
    /\ \E out \in [1 .. Len(live_hypotheses) -> DecoderRows(decoder, t + 1)] :
         LET scores == Scores(live_hypotheses, out)
             k == TopKCount(K, completed_hypotheses)
         IN IF k > Len(live_hypotheses) * VocabSize
            THEN \* torch.topk: selected index k out of range
                 /\ pc' = "error"
                 /\ raised' = "RuntimeError"
                 /\ UNCHANGED <<live_hypotheses, completed_hypotheses>>
            ELSE \E sel \in TopK(scores, DOMAIN scores, k) :
                 LET new == NewNodes(live_hypotheses, scores, sel, t + 1)
                     completed == completed_hypotheses \o SelectSeq(new, IsCompleted)
                 IN /\ completed_hypotheses' = completed
                    /\ live_hypotheses' = SelectSeq(new, IsLive)
                    /\ pc' = IF Len(completed) = K THEN "finalize" ELSE "while"
                    /\ raised' = raised
    /\ UNCHANGED <<c, s, output_logits, batch_size, decoded_batch, args,
                   decodeVars, idx>>

\* Line 470 evaluated false: leave the loop.
WhileExit ==
    /\ pc = "while"
    /\ ~WhileCond
    /\ pc' = "finalize"
    /\ UNCHANGED <<raised, c, s, output_logits, batch_size, decoded_batch, args,
                   decodeVars, beamVars>>

\* Lines 517-533: promote the live nodes, rank, rebuild the best utterance.
Finalize ==
    /\ pc = "finalize"
    /\ LET promoted == completed_hypotheses \o live_hypotheses
       IN /\ completed_hypotheses' = promoted
          /\ decoded_batch' = Append(decoded_batch, Utterance(promoted))
    /\ idx' = idx + 1
    /\ pc' = "example"
    /\ UNCHANGED <<raised, c, s, output_logits, batch_size, args, decodeVars,
                   t, live_hypotheses>>

(* --------------------------- specification ---------------------------- *)
Next ==
    \/ LSTMDecoderForward
    \/ ContentDecoderForward
    \/ LSTMDecoderDecode
    \/ DecodeEntry
    \/ DecodeStep
    \/ DecodeReturn
    \/ BeamEntry
    \/ BeamExample
    \/ Expand
    \/ WhileExit
    \/ Finalize

Spec == Init /\ [][Next]_vars

(* ------------------------------ claims -------------------------------- *)
Beam == entry = "LSTMDecoder.beam_search_decode"

Decode == entry = "ContentDecoder.decode"

\* The loop head and the break of line 515: where an EXPAND step has ended.
InExpandPhase == Beam /\ pc \in {"while", "finalize"}

\* C1: at the end of every EXPAND step the live and the completed
\* hypotheses together number at most K.
C1_LivePlusCompletedAtMostK ==
    InExpandPhase =>
        Len(live_hypotheses) + Len(completed_hypotheses) <= K

C1_Witness ==
    /\ InExpandPhase
    /\ t >= 2
    /\ Len(live_hypotheses) >= 1
    /\ Len(completed_hypotheses) >= 1
    /\ Len(live_hypotheses) + Len(completed_hypotheses) = K

\* An example has been finalized: its utterance is the last of decoded_batch
\* and t still holds the number of EXPAND steps it took.
Finalized == Beam /\ pc \in {"example", "done"} /\ idx >= 1

\* C2: the returned sequence has at most max_t + 1 tokens, and it ends in
\* </s> unless the search stopped with t at max_t.
C2_ReturnedLengthAndEnd ==
    Finalized =>
        LET u == decoded_batch[idx]
        IN /\ Len(u) <= max_t + 1
           /\ t < max_t => u[Len(u)] = "</s>"

C2_Witness ==
    /\ Finalized
    /\ t >= 2
    /\ t < max_t
    /\ Len(completed_hypotheses) = K
    /\ Len(decoded_batch[idx]) = t + 1
    /\ decoded_batch[idx][t + 1] = "</s>"

\* The scenario of C3: forced decoder, K = 2, max_t = 3, call returned.
ForcedBeamDone == Beam /\ decoder = "forced" /\ K = 2 /\ max_t = 3 /\ pc = "done"

\* C3 as stated: the forced beam search returns ["a", "</s>"] for every example.
C3_Original ==
    ForcedBeamDone =>
        \A i \in DOMAIN decoded_batch : decoded_batch[i] = <<"a", "</s>">>

\* C3: the forced beam search returns ["<s>", "a", "</s>"] for every
\* example: the root's begin-of-sequence token heads the sequence.
C3_ForcedBeamResult ==
    ForcedBeamDone =>
        /\ Len(decoded_batch) = batch_size
        /\ \A i \in DOMAIN decoded_batch : decoded_batch[i] = <<"<s>", "a", "</s>">>

C3_Witness == ForcedBeamDone /\ batch_size = 2 /\ Len(decoded_batch) = 2

\* The scenario of C4: forced decoder, greedy selection, call returned.
ForcedDecodeDone == Decode /\ decoder = "forced" /\ greedy /\ pc = "done"

\* C4 as stated: the forced greedy loop returns ["a"] for every example.
C4_Original ==
    ForcedDecodeDone =>
        \A i \in DOMAIN decoded_batch : decoded_batch[i] = <<"a">>

\* C4: the forced greedy loop returns ["a", "</s>"] for every example: the
\* end-of-sequence token is appended at the step that selects it.
C4_ForcedGreedyResult ==
    ForcedDecodeDone =>
        /\ Len(decoded_batch) = batch_size
        /\ \A i \in DOMAIN decoded_batch : decoded_batch[i] = <<"a", "</s>">>

C4_Witness == ForcedDecodeDone /\ batch_size = 2 /\ length_c = 3

\* C5: at INIT the search holds one parentless root with the begin-of-
\* sequence token, cumulative log-probability 0 and length 1; it is the
\* only live node and nothing is completed.
C5_InitState ==
    (Beam /\ pc = "while" /\ t = 0) =>
        /\ Len(live_hypotheses) = 1
        /\ live_hypotheses[1].prevNode = None
        /\ live_hypotheses[1].wordid = vocab("<s>")
        /\ live_hypotheses[1].logp = 0
        /\ live_hypotheses[1].leng = 1
        /\ completed_hypotheses = <<>>

Terminated == pc \in {"done", "error"}

\* Steps a beam search may still take once `left` examples are not finalized.
BeamSteps(left) == left * (max_t + 3)

\* A bound on the steps the call may still take.
Variant ==
    IF Terminated THEN 0
    ELSE IF pc = "call"
         THEN IF Beam THEN BeamSteps(Rows(c)) + 2 ELSE MaxLength + 1
    ELSE IF pc = "loop" THEN MaxLength - length_c + 1
    ELSE IF pc = "example" THEN BeamSteps(batch_size - idx) + 1
    ELSE IF pc = "while" THEN BeamSteps(batch_size - idx - 1) + (max_t - t) + 3
    ELSE BeamSteps(batch_size - idx - 1) + 2

\* Where the calls stand with respect to their caps.
C6_Bounds ==
    /\ (Decode /\ pc \in {"loop", "done"}) => length_c <= MaxLength
    /\ (Decode /\ pc = "done") =>
          /\ Sum(mask) = 0 \/ length_c = MaxLength
          /\ Len(decoded_batch) = batch_size
          /\ raised = NoError
    /\ (Beam /\ pc \in {"while", "finalize", "example", "done"}) => t <= max_t
    /\ (Beam /\ pc = "finalize") =>
          /\ Len(completed_hypotheses) = K \/ t = max_t
          /\ t < max_t => Len(completed_hypotheses) = K
    /\ (Beam /\ pc = "done") =>
          /\ Len(decoded_batch) = batch_size
          /\ raised = NoError
    \* an exception is an argument error, never a cap
    /\ (Decode /\ pc = "error") => length_c = 0
    /\ (Beam /\ pc = "error") =>
          \/ batch_size = 0
          \/ TopKCount(K, completed_hypotheses) > Len(live_hypotheses) * VocabSize
    \* a call that has not ended can take a step (FINALIZE needs only a
    \* node to rank: utterances[0] of line 533)
    /\ \/ Terminated
       \/ pc = "finalize" /\ completed_hypotheses \o live_hypotheses # <<>>
       \/ pc # "finalize" /\ ENABLED Next
    /\ Variant >= 0

\* What a step of the loops may do.
C6_Steps ==
    /\ (Decode /\ pc = "loop" /\ Sum(mask) = 0) => pc' = "done"
    /\ (Decode /\ pc = "loop" /\ pc' = "loop") => length_c' = length_c + 1
    /\ (Decode /\ pc = "loop" /\ length_c = MaxLength) =>
          /\ pc' = "done"
          /\ decoded_batch' = decoded_batch
    /\ (Beam /\ pc = "while" /\ t' # t) =>
          /\ t' = t + 1
          /\ Len(completed_hypotheses) < K
          /\ pc' = "while" => Len(completed_hypotheses') < K
    /\ (Beam /\ pc = "while" /\ t = max_t) => pc' = "finalize"
    /\ (Beam /\ pc = "finalize") =>
          /\ pc' = "example"
          /\ Len(decoded_batch') = Len(decoded_batch) + 1
          /\ raised' = NoError
    \* every step brings the end of the call nearer
    /\ Variant' < Variant

\* C6: every call ends (it can always step until it has ended, and every
\* step lowers a non-negative bound); decode runs at most 99 iterations and stops at the
\* first one that leaves every example masked; beam search runs at most
\* max_t EXPAND steps per example and leaves the loop earlier exactly when
\* K hypotheses are completed; at a cap a sequence is returned, not an error.
C6_Terminates == []C6_Bounds /\ [][C6_Steps]_vars

C6_Witness ==
    /\ Decode
    /\ pc = "done"
    /\ length_c = MaxLength
    /\ Sum(mask) >= 1
    /\ \A i \in DOMAIN decoded_batch :
          mask[i] = 1 => Len(decoded_batch[i]) = MaxLength - 1

\* The arguments C7 is about: sample counts or batch sizes that differ, or
\* more than one sample per example.
BadShapes ==
    /\ Len(c) = 2
    /\ \/ c[1] > 1
       \/ s # NoTensor /\ (c[1] # s[1] \/ c[2] # s[2])

\* C7: every decoding entry point called with such arguments ends in an
\* error before it produces anything.
C7_FailFast == [][(pc = "call" /\ BadShapes) => pc' = "error"]_vars

Range(f) == {f[i] : i \in DOMAIN f}

\* The tokens from the root to n, in generation order.
RECURSIVE PathTo(_)
PathTo(n) ==
    IF n.prevNode = None THEN <<id2word[n.wordid + 1]>>
    ELSE Append(PathTo(n.prevNode[1]), id2word[n.wordid + 1])

MaxLogp(n, cand) == \A m \in cand : m.logp <= n.logp

C8_Step ==
    (Beam /\ pc = "finalize" /\ pc' = "example") =>
        LET cand == Range(completed_hypotheses) \cup Range(live_hypotheses)
        IN /\ Len(decoded_batch) = idx
           /\ idx' = idx + 1
           /\ \E n \in cand :
                 /\ MaxLogp(n, cand)
                 /\ decoded_batch' = Append(decoded_batch, PathTo(n))

C8_Count == (Beam /\ pc = "done") => Len(decoded_batch) = batch_size

\* C8: each example's returned sequence is the root-to-node path of a node
\* of maximal raw logp among the completed and the still live hypotheses;
\* one sequence per example, in example order.
C8_BestByRawLogp == []C8_Count /\ [][C8_Step]_vars

\* A returned node that BeamSearchNode.eval would not have ranked first.
C8_Witness ==
    /\ Finalized
    /\ \E n, m \in Range(completed_hypotheses) :
          /\ MaxLogp(n, Range(completed_hypotheses))
          /\ decoded_batch[idx] = PathTo(n)
          /\ m.logp < n.logp
          /\ EvalLess(n, m)

EndOfSequence(n) == n.wordid = vocab("</s>")

C9_Phase ==
    /\ InExpandPhase =>
          /\ \A n \in Range(completed_hypotheses) : EndOfSequence(n)
          /\ \A n \in Range(live_hypotheses) : ~EndOfSequence(n)
    /\ Finalized =>
          \A n \in Range(completed_hypotheses) :
             ~EndOfSequence(n) => n \in Range(live_hypotheses)

C9_Step ==
    (Beam /\ pc = "while" /\ t' # t /\ pc' # "error") =>
        LET old == Len(completed_hypotheses)
            new == Len(completed_hypotheses')
        IN /\ new >= old
           /\ SubSeq(completed_hypotheses', 1, old) = completed_hypotheses
           /\ (new - old) + Len(live_hypotheses') = K - old
           /\ \A j \in (old + 1) .. new :
                 /\ EndOfSequence(completed_hypotheses'[j])
                 /\ completed_hypotheses'[j].prevNode[1] \in Range(live_hypotheses)
           /\ \A n \in Range(live_hypotheses') :
                 /\ ~EndOfSequence(n)
                 /\ n.prevNode[1] \in Range(live_hypotheses)

\* C9: during EXPAND a new node goes to completed exactly when its token is
\* </s> and to the new live list otherwise, so completed holds only </s>
\* nodes and live none; other tokens enter completed only in FINALIZE.
C9_CompletedIffEndOfSequence == []C9_Phase /\ [][C9_Step]_vars

C9_Witness ==
    /\ Finalized
    /\ \E n \in Range(completed_hypotheses) : EndOfSequence(n)
    /\ \E n \in Range(completed_hypotheses) : ~EndOfSequence(n) /\ n.leng >= 2

C10_Outputs ==
    (Decode /\ pc \in {"loop", "done"}) =>
        \A i \in 1 .. batch_size :
            LET out == decoded_batch[i]
            IN /\ \A j \in 1 .. Len(out) : out[j] = "</s>" => j = Len(out)
               /\ mask[i] = 0 <=> (out # <<>> /\ out[Len(out)] = "</s>")
               /\ mask[i] = 1 => Len(out) = length_c - 1

C10_Step ==
    (Decode /\ pc = "loop" /\ pc' = "loop") =>
        \A i \in 1 .. batch_size :
            IF mask[i] = 0
            THEN /\ decoded_batch'[i] = decoded_batch[i]
                 /\ mask'[i] = 0
            ELSE decoded_batch'[i] =
                     Append(decoded_batch[i], id2word[decoder_input'[i] + 1])

\* C10: once an example's mask is cleared nothing more is appended to its
\* output and the mask stays cleared, so </s> occurs at most once and only
\* last; an unmasked example receives exactly one token per step.
C10_MaskedStaysSilent == []C10_Outputs /\ [][C10_Step]_vars

C10_Witness ==
    /\ Decode
    /\ pc = "loop"
    /\ batch_size = 2
    /\ mask = <<0, 1>>
    /\ decoder_input[1] # vocab("</s>")
    /\ Len(decoded_batch[1]) = 1
    /\ Len(decoded_batch[2]) >= 3

\* The arguments C11 is about: a beam no wider than the vocabulary.
WidthFits == Beam /\ K >= 1 /\ VocabSize >= K

\* The loop head with line 470 true: an EXPAND step is about to start.
AtExpandStart == pc = "while" /\ WhileCond

C11_State ==
    /\ (WidthFits /\ AtExpandStart) =>
          /\ live_hypotheses # <<>>
          /\ TopKCount(K, completed_hypotheses) >= 1
          /\ TopKCount(K, completed_hypotheses) <=
                 Len(live_hypotheses) * VocabSize
    /\ (WidthFits /\ InExpandPhase /\ t >= 1) =>
          /\ Len(live_hypotheses) + Len(completed_hypotheses) = K
          /\ live_hypotheses = <<>> <=> Len(completed_hypotheses) = K

C11_Step ==
    (WidthFits /\ AtExpandStart) =>
        /\ pc' \in {"while", "finalize"}
        /\ raised' = NoError
        /\ t' = t + 1
        /\ Len(live_hypotheses') + Len(completed_hypotheses') = K

\* C11: with 1 <= K <= vocabulary size, every EXPAND step starts with a
\* non-empty live list and asks topk for between 1 and |live| * vocabulary
\* entries, so it never fails; after every EXPAND step live and completed
\* together number exactly K, so live is empty exactly when completed
\* holds K nodes.
C11_ExpandWellDefined == []C11_State /\ [][C11_Step]_vars

C11_Witness ==
    /\ WidthFits
    /\ AtExpandStart
    /\ t >= 1
    /\ K = 3
    /\ Len(completed_hypotheses) = 1
    /\ Len(live_hypotheses) = 2
    /\ TopKCount(K, completed_hypotheses) = 2

====
